---- MODULE Spec2Model ----
(***************************************************************************)
(* Enhanced suffix array construction (suffix_rs), its read-only iterator  *)
(* (Suffix::iter, SuffixIterator::next) and the foreign-call wrapper       *)
(* (c_ver::esaxx, c_ver::suffix).                                          *)
(*                                                                         *)
(* A Rust Vec / slice is a TLA+ sequence; Rust indices are 0-based, so     *)
(* v[i] of the source is At(v, i) here.  The modules esa and sais, which   *)
(* lib.rs imports (lib.rs:40-45), are modelled from sections 4.1 and 4.2   *)
(* of the specification.                                                   *)
(***************************************************************************)
EXTENDS Integers, Sequences, FiniteSets, TLC

VARIABLES
    ret_rs,      \* result of suffix_rs: none yet, Ok(Suffix<usize>) or Err
    iters,       \* the SuffixIterator<usize> values obtained from ret_rs
    panicked,    \* a next() call panicked (index out of bounds, underflow, unwrap)
    bufs,        \* c_ver: the caller's buffers sa, l, r, d and the input chars
    node_num,    \* c_ver: the caller's node_num: &mut u32
    ret_c,       \* c_ver: result of esaxx
    ffi_calls,   \* c_ver: number of times esaxx_int32 was entered
    ret_suffix,  \* c_ver: result of suffix: none yet, Ok(Suffix<i32>) or Err
    iter32       \* c_ver: the SuffixIterator<i32> obtained from ret_suffix

vars == <<ret_rs, iters, panicked, bufs, node_num, ret_c, ffi_calls, ret_suffix, iter32>>

rs_vars == <<ret_rs, iters, panicked>>
c_vars == <<bufs, node_num, ret_c, ffi_calls, ret_suffix, iter32>>

-----------------------------------------------------------------------------
(* Bounds of the model *)

\* longest generated input text over BoundedChars
MaxLen == 7
\* longest generated input text over WiderChars
MaxWideLen == 4
\* next() calls made on an iterator after it first returned None
MaxNone == 2
\* longest input text handed to the c_ver entry points
MaxCLen == 2

-----------------------------------------------------------------------------
(* Program constants *)

\* let alphabet_size = 0x110000; // All UCS4 range.
alphabet_size == 1114112
\* u32::try_from(x) succeeds: x is in 0 .. 2^32 - 1.  The integers of the model
\* stay below 2^31, so only the sign decides.
FitsU32(x) == x >= 0

-----------------------------------------------------------------------------
(* Vectors *)

At(v, i) == v[i + 1]
Put(v, i, x) == [v EXCEPT ![i + 1] = x]
InBounds(v, i) == i >= 0 /\ i < Len(v)
\* vec![0; n]
Zeros(n) == [i \in 1..n |-> 0]
\* &v[a..b], defined when a <= b <= v.len()
Slice(v, a, b) == [i \in 1..(b - a) |-> v[a + i]]

-----------------------------------------------------------------------------
(* Input texts *)

BoundedChars == {"a", "b"}
WiderChars == {"a", "b", "c"}

\* `*c as u32`: the code point of a char
CodePoint(c) ==
    CASE c = "$" -> 36
      [] c = "a" -> 97
      [] c = "b" -> 98
      [] c = "c" -> 99
      [] c = "d" -> 100
      [] c = "n" -> 110
      [] c = "r" -> 114

\* the literal inputs of the tests
Abracadabra == <<"a", "b", "r", "a", "c", "a", "d", "a", "b", "r", "a">>
BananaBand == <<"b", "a", "n", "a", "n", "a", "$", "b", "a", "n", "d", "$", "$">>

BoundedTexts == UNION {[1..n -> BoundedChars] : n \in 0..MaxLen}
WiderTexts == UNION {[1..n -> WiderChars] : n \in 0..MaxWideLen}
Texts == BoundedTexts \cup WiderTexts \cup {Abracadabra, BananaBand}
CTexts == UNION {[1..n -> BoundedChars] : n \in 0..MaxCLen}
\* caller buffers for a text of n symbols: one short, exact, one long
BufLens(n) == {m \in {n - 1, n, n + 1} : m >= 0}
\* what a caller's buffer holds before the call
Fills == {0, -1}

-----------------------------------------------------------------------------
(* 4.1 Suffix Sorter: induced sorting.  The sorter works on 1-based        *)
(* positions of the sequence extended by a terminal position that is       *)
(* smaller than every symbol and S-type by convention.                     *)

RECURSIVE SType(_, _)
SType(s, i) ==
    IF i = Len(s) THEN TRUE
    ELSE IF s[i] < s[i + 1] THEN TRUE
    ELSE IF s[i] > s[i + 1] THEN FALSE
    ELSE SType(s, i + 1)

Classify(s) == [i \in 1..Len(s) |-> SType(s, i)]

IsLMS(t, i) == i > 1 /\ t[i] /\ ~t[i - 1]

RECURSIVE LMSOf(_, _, _)
LMSOf(t, seq, k) ==
    IF k > Len(seq) THEN <<>>
    ELSE IF IsLMS(t, seq[k]) THEN <<seq[k]>> \o LMSOf(t, seq, k + 1)
    ELSE LMSOf(t, seq, k + 1)

SymbolsOf(s) == {s[i] : i \in 1..Len(s)}
BucketHeads(s) == [c \in SymbolsOf(s) |-> Cardinality({i \in 1..Len(s) : s[i] < c}) + 1]
BucketTails(s) == [c \in SymbolsOf(s) |-> Cardinality({i \in 1..Len(s) : s[i] <= c})]

RECURSIVE PlaceLMS(_, _, _, _)
PlaceLMS(s, order, k, st) ==
    IF k = 0 THEN st
    ELSE LET p == order[k]
             c == s[p]
         IN PlaceLMS(s, order, k - 1,
                     [sa |-> [st.sa EXCEPT ![st.ptr[c]] = p],
                      ptr |-> [st.ptr EXCEPT ![c] = @ - 1]])

RECURSIVE InduceL(_, _, _, _)
InduceL(s, t, i, st) ==
    IF i > Len(s) THEN st
    ELSE LET j == st.sa[i] - 1
         IN IF j >= 1 /\ ~t[j]
            THEN InduceL(s, t, i + 1,
                         [sa |-> [st.sa EXCEPT ![st.ptr[s[j]]] = j],
                          ptr |-> [st.ptr EXCEPT ![s[j]] = @ + 1]])
            ELSE InduceL(s, t, i + 1, st)

RECURSIVE InduceS(_, _, _, _)
InduceS(s, t, i, st) ==
    IF i = 0 THEN st
    ELSE LET j == st.sa[i] - 1
         IN IF j >= 1 /\ t[j]
            THEN InduceS(s, t, i - 1,
                         [sa |-> [st.sa EXCEPT ![st.ptr[s[j]]] = j],
                          ptr |-> [st.ptr EXCEPT ![s[j]] = @ - 1]])
            ELSE InduceS(s, t, i - 1, st)

Induce(s, t, order) ==
    LET m == Len(s)
        st0 == PlaceLMS(s, order, Len(order),
                        [sa |-> [i \in 1..m |-> 0], ptr |-> BucketTails(s)])
        st1 == InduceL(s, t, 1, [sa |-> st0.sa, ptr |-> BucketHeads(s)])
        st2 == InduceS(s, t, m, [sa |-> st1.sa, ptr |-> BucketTails(s)])
    IN st2.sa

RECURSIVE LMSEqual(_, _, _, _, _)
LMSEqual(s, t, p, q, k) ==
    IF p + k > Len(s) \/ q + k > Len(s) THEN FALSE
    ELSE IF s[p + k] # s[q + k] \/ t[p + k] # t[q + k] THEN FALSE
    ELSE IF k > 0 /\ (IsLMS(t, p + k) \/ IsLMS(t, q + k))
         THEN IsLMS(t, p + k) /\ IsLMS(t, q + k)
    ELSE LMSEqual(s, t, p, q, k + 1)

RECURSIVE LMSNames(_, _, _, _)
LMSNames(s, t, sorted, k) ==
    IF k = 0 THEN <<>>
    ELSE IF k = 1 THEN <<0>>
    ELSE LET prev == LMSNames(s, t, sorted, k - 1)
         IN Append(prev, IF LMSEqual(s, t, sorted[k - 1], sorted[k], 0)
                         THEN prev[k - 1] ELSE prev[k - 1] + 1)

Positions(m) == [i \in 1..m |-> i]
RankIn(sorted, p) == CHOOSE k \in 1..Len(sorted) : sorted[k] = p

\* every LMS substring has a rank of its own: the LMS order is final
Unique(names) == Len(names) = 0 \/ names[Len(names)] + 1 = Len(names)

\* the reduced problem: the ranks of the LMS substrings in text order
Reduced(lms, sorted, names) == [k \in 1..Len(lms) |-> names[RankIn(sorted, lms[k])]]
FromReduced(lms, sub) == [k \in 1..Len(lms) |-> lms[sub[k]]]

RECURSIVE InducedSort(_)

\* step 3: recurse on the reduced sequence unless the ranks are unique
ResolveOrder(lms, sorted, names) ==
    IF Unique(names) THEN sorted
    ELSE FromReduced(lms, InducedSort(Reduced(lms, sorted, names)))

NameLMS(s, t, lms, sorted) == ResolveOrder(lms, sorted, LMSNames(s, t, sorted, Len(sorted)))

\* step 2: sort the LMS substrings by one induction from their text order
SortLMS(s, t, lms) == NameLMS(s, t, lms, LMSOf(t, Induce(s, t, lms), 1))

\* step 4: induce the suffix array from the resolved LMS order
SortTyped(s, t) == Induce(s, t, SortLMS(s, t, LMSOf(t, Positions(Len(s)), 1)))

InducedSort(s) == IF Len(s) = 1 THEN <<1>> ELSE SortTyped(s, Classify(s))

Terminated(T) == [i \in 1..Len(T) + 1 |-> IF i <= Len(T) THEN T[i] + 1 ELSE 0]

\* the suffix array of T as 0-based offsets
SuffixSorter(T, k) ==
    IF Len(T) = 0 THEN <<>>
    ELSE LET sa == InducedSort(Terminated(T)) IN [i \in 1..Len(T) |-> sa[i + 1] - 1]

-----------------------------------------------------------------------------
(* 4.2 LCP / Interval Builder.  The height values are computed into r      *)
(* (by text position) and copied into l (by suffix-array position); the     *)
(* sweep then writes the nodes over the front of l, r and d.                *)

RankOf(sa, p) == CHOOSE k \in 0..(Len(sa) - 1) : At(sa, k) = p

\* the common prefix of the suffixes at i and j is at least h long: extend it
RECURSIVE Extend(_, _, _, _)
Extend(T, i, j, h) ==
    IF i + h < Len(T) /\ j + h < Len(T) /\ At(T, i + h) = At(T, j + h)
    THEN Extend(T, i, j, h + 1)
    ELSE h

\* one linear scan over the text positions, carrying h
RECURSIVE Heights(_, _, _, _, _)
Heights(T, sa, i, h, r) ==
    IF i = Len(T) THEN r
    ELSE LET k == RankOf(sa, i)
         IN IF k = 0
            THEN Heights(T, sa, i + 1, 0, Put(r, i, 0))
            ELSE LET h1 == Extend(T, i, At(sa, k - 1), h)
                 IN Heights(T, sa, i + 1, IF h1 > 0 THEN h1 - 1 ELSE 0, Put(r, i, h1))

\* the stack the sweep starts with: the root interval, open at 0 with depth 0
RootStack == <<[start |-> 0, depth |-> 0]>>

\* close the interval `top` against position i as node number st.node_num
Emit(st, top, i) ==
    IF st.node_num >= Len(st.l)
    THEN [st EXCEPT !.oob = TRUE]
    ELSE [st EXCEPT !.l = Put(@, st.node_num, top.start),
                    !.r = Put(@, st.node_num, i),
                    !.d = Put(@, st.node_num, top.depth),
                    !.node_num = @ + 1]

\* while the top-of-stack depth is greater than h: pop it and emit a node
RECURSIVE CloseDeeper(_, _, _, _)
CloseDeeper(st, i, h, start) ==
    IF Len(st.stack) > 0 /\ st.stack[Len(st.stack)].depth > h
    THEN LET top == st.stack[Len(st.stack)]
             popped == [Emit(st, top, i) EXCEPT !.stack = SubSeq(st.stack, 1, Len(st.stack) - 1)]
         IN CloseDeeper(popped, i, h, top.start)
    ELSE [st |-> st, start |-> start]

\* if the top-of-stack depth is less than h: push a new interval
PushIfShallower(c, h) ==
    IF c.st.stack[Len(c.st.stack)].depth < h
    THEN [c.st EXCEPT !.stack = Append(@, [start |-> c.start, depth |-> h])]
    ELSE c.st

\* positions i .. n-1 of the scan, then the drain against right = n
RECURSIVE Sweep(_, _)
Sweep(st, i) ==
    IF i >= Len(st.l)
    THEN CloseDeeper(st, Len(st.l), -1, i).st
    ELSE Sweep(PushIfShallower(CloseDeeper(st, i, At(st.l, i), i - 1), At(st.l, i)), i + 1)

HeightBySA(plcp, sa) == [i \in 1..Len(sa) |-> At(plcp, At(sa, i - 1))]

StartSweep(plcp, sa, d) ==
    Sweep([l |-> HeightBySA(plcp, sa), r |-> plcp, d |-> d, node_num |-> 0, oob |-> FALSE,
           stack |-> RootStack], 1)

IntervalBuilder(T, sa, l, r, d) ==
    IF Len(T) = 0
    THEN [l |-> l, r |-> r, d |-> d, node_num |-> 0, oob |-> FALSE, stack |-> <<>>]
    ELSE StartSweep(Heights(T, sa, 0, 0, r), sa, d)

BuilderResult(sorted, b) ==
    [tag |-> IF b.oob THEN "Panic" ELSE "Ok", err |-> "",
     sa |-> sorted, l |-> b.l, r |-> b.r, d |-> b.d, node_num |-> b.node_num]

BuildFrom(T, sorted, l, r, d) == BuilderResult(sorted, IntervalBuilder(T, sorted, l, r, d))

\* esa::esaxx_rs(T, SA, L, R, D, k) -> Result<usize, SuffixError>
esaxx_rs(T, sa, l, r, d, k) ==
    IF Len(sa) # Len(T) \/ Len(l) # Len(T) \/ Len(r) # Len(T) \/ Len(d) # Len(T)
    THEN [tag |-> "Err", err |-> "InvalidLength", sa |-> sa, l |-> l, r |-> r, d |-> d,
          node_num |-> 0]
    ELSE BuildFrom(T, SuffixSorter(T, k), l, r, d)

-----------------------------------------------------------------------------
(* lib.rs: suffix_rs *)

None == [some |-> FALSE]
Some(index, slice, freq) == [some |-> TRUE, index |-> index, slice |-> slice, freq |-> freq]

NoResult == [tag |-> "none"]

\* chars.iter().map(|c| *c as u32).collect()
U32Chars(chars) == [i \in 1..Len(chars) |-> CodePoint(chars[i])]

\* the `?` on the builder's result, then Ok(Suffix { .. })
OkSuffix(chars, res) ==
    IF res.tag # "Ok"
    THEN [tag |-> res.tag, err |-> res.err]
    ELSE [tag |-> "Ok",
          val |-> [chars |-> chars,
                   suffix_array |-> res.sa,
                   left_array |-> res.l,
                   right_array |-> res.r,
                   depth_array |-> res.d,
                   node_num |-> res.node_num]]

SwapSaLeft(res) == [res EXCEPT !.sa = res.l, !.l = res.sa]
SwapLeftRight(res) == [res EXCEPT !.l = res.r, !.r = res.l]

\* the builder handed (T, left_array, suffix_array, ..): SA lands in left_array
suffix_rs_sa_left_swapped(string) ==
    OkSuffix(string,
             SwapSaLeft(esaxx_rs(U32Chars(string), Zeros(Len(string)), Zeros(Len(string)),
                                 Zeros(Len(string)), Zeros(Len(string)), alphabet_size)))

\* the builder handed (.., right_array, left_array, ..): L lands in right_array
suffix_rs_left_right_swapped(string) ==
    OkSuffix(string,
             SwapLeftRight(esaxx_rs(U32Chars(string), Zeros(Len(string)), Zeros(Len(string)),
                                    Zeros(Len(string)), Zeros(Len(string)), alphabet_size)))

\* the output vectors allocated as vec![0; n + 1]
suffix_rs_oversized(string) ==
    OkSuffix(string,
             esaxx_rs(U32Chars(string), Zeros(Len(string) + 1), Zeros(Len(string) + 1),
                      Zeros(Len(string) + 1), Zeros(Len(string) + 1), alphabet_size))

suffix_rs(string) ==
    OkSuffix(string,
             esaxx_rs(U32Chars(string), Zeros(Len(string)), Zeros(Len(string)),
                      Zeros(Len(string)), Zeros(Len(string)), alphabet_size))

-----------------------------------------------------------------------------
(* structs.rs: Suffix::iter and the two Iterator implementations.  A        *)
(* next() call yields the value it returns, the cursor it leaves and        *)
(* whether it panicked; `index` of a Some is the local `index` of the call. *)

\* the cursor starts past the first node
iter_from_one(sfx) == [i |-> 1]

\* SuffixIterator { i: 0, suffix: self }
iter(sfx) == [i |-> 0]

Panic(i) == [ret |-> None, i |-> i, panic |-> TRUE]

\* the end test off by one: `index + 1 == self.suffix.node_num`
next_usize_early_end(self, sfx) ==
    LET index == self.i
    IN IF index + 1 = sfx.node_num \/ index = sfx.node_num
       THEN [ret |-> None, i |-> self.i, panic |-> FALSE]
       ELSE LET left == At(sfx.left_array, index)
                offset == At(sfx.suffix_array, left)
                len == At(sfx.depth_array, index)
            IN [ret |-> Some(index, Slice(sfx.chars, offset, offset + len),
                             At(sfx.right_array, index) - left),
                i |-> self.i + 1, panic |-> FALSE]

\* the offset read at the node index: `self.suffix.suffix_array[index]`
next_usize_offset_at_index(self, sfx) ==
    LET index == self.i
    IN IF index = sfx.node_num THEN [ret |-> None, i |-> self.i, panic |-> FALSE]
       ELSE LET left == At(sfx.left_array, index)
                offset == At(sfx.suffix_array, index)
                len == At(sfx.depth_array, index)
            IN IF offset + len > Len(sfx.chars) THEN Panic(self.i + 1)
               ELSE [ret |-> Some(index, Slice(sfx.chars, offset, offset + len),
                                  At(sfx.right_array, index) - left),
                     i |-> self.i + 1, panic |-> FALSE]

\* impl Iterator for SuffixIterator<usize>
next_usize(self, sfx) ==
    LET index == self.i
    IN IF index = sfx.node_num THEN [ret |-> None, i |-> self.i, panic |-> FALSE]
       ELSE IF ~InBounds(sfx.left_array, index) THEN Panic(self.i)
       ELSE LET left == At(sfx.left_array, index)
            IN IF ~InBounds(sfx.suffix_array, left) THEN Panic(self.i)
               ELSE IF ~InBounds(sfx.depth_array, index) THEN Panic(self.i)
               ELSE IF ~InBounds(sfx.right_array, index) THEN Panic(self.i)
               ELSE LET offset == At(sfx.suffix_array, left)
                        len == At(sfx.depth_array, index)
                        diff == At(sfx.right_array, index) - At(sfx.left_array, index)
                    IN \* usize underflow panics or wraps past u32, where unwrap panics
                       IF ~FitsU32(diff) THEN Panic(self.i)
                       ELSE IF offset + len > Len(sfx.chars) THEN Panic(self.i + 1)
                       ELSE [ret |-> Some(index, Slice(sfx.chars, offset, offset + len), diff),
                             i |-> self.i + 1, panic |-> FALSE]

Iters == {1, 2}
NoIter == [live |-> FALSE, i |-> 0, out |-> <<>>]
NoneCount(out) == Cardinality({c \in 1..Len(out) : ~out[c].some})

-----------------------------------------------------------------------------------------------------------------------------------------------------
(* c_ver.rs: the foreign function, its wrapper esaxx, and suffix *)

\* what the foreign function sees of a caller's buffer as n elements
Fit(buf, n) == [i \in 1..n |-> IF i <= Len(buf) THEN buf[i] ELSE 0]
\* what the foreign function's n elements leave in the caller's buffer
WriteBack(buf, vals) == [i \in 1..Len(buf) |-> IF i <= Len(vals) THEN vals[i] ELSE buf[i]]

FfiOutcomes == {"success", "failure"}

FfiReturn(res, sa, l, r, d, nodeNum, outcome) ==
    IF outcome = "success" /\ res.tag = "Ok"
    THEN [err |-> 0, sa |-> WriteBack(sa, res.sa), l |-> WriteBack(l, res.l),
          r |-> WriteBack(r, res.r), d |-> WriteBack(d, res.d), nodeNum |-> res.node_num]
    ELSE [err |-> -1, sa |-> sa, l |-> l, r |-> r, d |-> d, nodeNum |-> nodeNum]

\* extern "C" esaxx_int32(T, SA, L, R, D, n, k, nodeNum) -> i32: status 0 with the
\* buffers and nodeNum filled as by the self-contained builder, or a non-zero
\* status on internal failure
esaxx_int32(T, sa, l, r, d, n, k, nodeNum, outcome) ==
    FfiReturn(esaxx_rs(Fit(T, n), Fit(sa, n), Fit(l, n), Fit(r, n), Fit(d, n), k),
              sa, l, r, d, nodeNum, outcome)

\* if err != 0 { return Err(SuffixError::Internal); } Ok(())
EsaxxReturn(ffi) ==
    [ret |-> IF ffi.err # 0 THEN "Internal" ELSE "Ok",
     sa |-> ffi.sa, l |-> ffi.l, r |-> ffi.r, d |-> ffi.d,
     node_num |-> ffi.nodeNum, called |-> TRUE]

\* the length test without `d.len() != n`
esaxx_d_unchecked(chars, sa, l, r, d, k, nodeNum, outcome) ==
    IF Len(sa) # Len(chars) \/ Len(l) # Len(chars) \/ Len(r) # Len(chars)
    THEN [ret |-> "InvalidLength", sa |-> sa, l |-> l, r |-> r, d |-> d,
          node_num |-> nodeNum, called |-> FALSE]
    ELSE EsaxxReturn(esaxx_int32(U32Chars(chars), sa, l, r, d, Len(chars), k, nodeNum,
                                 outcome))

\* pub(crate) fn esaxx(chars, sa, l, r, d, alphabet_size, node_num) -> Result<(), SuffixError>
\* chars.as_ptr() as *const u32 hands each char over as its code point
esaxx(chars, sa, l, r, d, k, nodeNum, outcome) ==
    IF Len(sa) # Len(chars) \/ Len(l) # Len(chars) \/ Len(r) # Len(chars)
       \/ Len(d) # Len(chars)
    THEN [ret |-> "InvalidLength", sa |-> sa, l |-> l, r |-> r, d |-> d,
          node_num |-> nodeNum, called |-> FALSE]
    ELSE EsaxxReturn(esaxx_int32(U32Chars(chars), sa, l, r, d, Len(chars), k, nodeNum,
                                 outcome))

\* the `?` on esaxx's result, then Ok(Suffix { .., node_num: node_num as usize })
OkSuffixC(chars, res) ==
    IF res.ret # "Ok"
    THEN [tag |-> "Err", err |-> res.ret, called |-> res.called]
    ELSE [tag |-> "Ok", called |-> res.called,
          val |-> [chars |-> chars,
                   suffix_array |-> res.sa,
                   left_array |-> res.l,
                   right_array |-> res.r,
                   depth_array |-> res.d,
                   node_num |-> res.node_num]]

\* pub fn suffix(string) -> Result<Suffix<i32>, SuffixError>
suffix(string, outcome) ==
    OkSuffixC(string,
              esaxx(string, Zeros(Len(string)), Zeros(Len(string)), Zeros(Len(string)),
                    Zeros(Len(string)), alphabet_size, 0, outcome))

\* impl Iterator for SuffixIterator<i32>: a failed conversion returns None early
next_i32(self, sfx) ==
    LET index == self.i
        Early == [ret |-> None, i |-> self.i, panic |-> FALSE]
    IN IF index = sfx.node_num THEN Early
       ELSE IF ~InBounds(sfx.left_array, index) THEN Panic(self.i)
       ELSE LET left == At(sfx.left_array, index)
            IN IF left < 0 THEN Early
               ELSE IF ~InBounds(sfx.suffix_array, left) THEN Panic(self.i)
               ELSE LET offset == At(sfx.suffix_array, left)
                    IN IF offset < 0 THEN Early
                       ELSE IF ~InBounds(sfx.depth_array, index) THEN Panic(self.i)
                       ELSE LET len == At(sfx.depth_array, index)
                            IN IF len < 0 THEN Early
                               ELSE IF ~InBounds(sfx.right_array, index) THEN Panic(self.i)
                               ELSE LET diff == At(sfx.right_array, index) - left
                                    IN IF ~FitsU32(diff) THEN Early
                                       ELSE IF offset + len > Len(sfx.chars)
                                            THEN Panic(self.i + 1)
                                       ELSE [ret |-> Some(index,
                                                          Slice(sfx.chars, offset, offset + len),
                                                          diff),
                                             i |-> self.i + 1, panic |-> FALSE]

-----
(* The program: one construction, then any interleaving of iter() and next() *)

CInit ==
    /\ bufs = [chars |-> <<>>, sa |-> <<>>, l |-> <<>>, r |-> <<>>, d |-> <<>>]
    /\ node_num = 0
    /\ ret_c = "none"
    /\ ffi_calls = 0
    /\ ret_suffix = NoResult
    /\ iter32 = NoIter

Init ==
    /\ ret_rs = NoResult
    /\ iters = [k \in Iters |-> NoIter]
    /\ panicked = FALSE
    /\ CInit

SuffixRs ==
    /\ ret_rs.tag = "none"
    /\ \E string \in Texts : ret_rs' = suffix_rs(string)
    /\ UNCHANGED <<iters, panicked, c_vars>>

Iter(k) ==
    /\ ret_rs.tag = "Ok"
    /\ ~panicked
    /\ iters' = [iters EXCEPT ![k] = [live |-> TRUE, i |-> iter(ret_rs.val).i, out |-> <<>>]]
    /\ UNCHANGED <<ret_rs, panicked, c_vars>>

IterNext(k) ==
    /\ ret_rs.tag = "Ok"
    /\ ~panicked
    /\ iters[k].live
    /\ NoneCount(iters[k].out) < MaxNone
    /\ LET call == next_usize(iters[k], ret_rs.val)
       IN /\ iters' = [iters EXCEPT ![k] = [live |-> TRUE, i |-> call.i,
                                            out |-> IF call.panic THEN @.out
                                                    ELSE Append(@.out, call.ret)]]
          /\ panicked' = call.panic
    /\ UNCHANGED <<ret_rs, c_vars>>

Next ==
    \/ SuffixRs
    \/ \E k \in Iters : Iter(k)
    \/ \E k \in Iters : IterNext(k)

Spec == Init /\ [][Next]_vars

-----------------------------------------------------------------------------
(* The c_ver program: either one esaxx call on the caller's buffers, or one *)
(* suffix call on the same text followed by iteration                       *)

InitC ==
    /\ ret_rs = NoResult
    /\ iters = [k \in Iters |-> NoIter]
    /\ panicked = FALSE
    /\ \E chars \in CTexts, fill \in Fills :
         \E nsa \in BufLens(Len(chars)), nl \in BufLens(Len(chars)),
            nr \in BufLens(Len(chars)), nd \in BufLens(Len(chars)) :
              bufs = [chars |-> chars,
                      sa |-> [i \in 1..nsa |-> fill], l |-> [i \in 1..nl |-> fill],
                      r |-> [i \in 1..nr |-> fill], d |-> [i \in 1..nd |-> fill]]
    /\ node_num = 0
    /\ ret_c = "none"
    /\ ffi_calls = 0
    /\ ret_suffix = NoResult
    /\ iter32 = NoIter

EsaxxReturns(call) ==
    /\ bufs' = [bufs EXCEPT !.sa = call.sa, !.l = call.l, !.r = call.r, !.d = call.d]
    /\ node_num' = call.node_num
    /\ ret_c' = call.ret
    /\ ffi_calls' = IF call.called THEN ffi_calls + 1 ELSE ffi_calls

Esaxx ==
    /\ ret_c = "none"
    /\ ret_suffix.tag = "none"
    /\ \E outcome \in FfiOutcomes :
         EsaxxReturns(esaxx(bufs.chars, bufs.sa, bufs.l, bufs.r, bufs.d, alphabet_size,
                            node_num, outcome))
    /\ UNCHANGED <<rs_vars, ret_suffix, iter32>>

SuffixReturns(call) ==
    /\ ret_suffix' = IF call.tag = "Ok" THEN [tag |-> "Ok", val |-> call.val]
                     ELSE [tag |-> "Err", err |-> call.err]
    /\ ffi_calls' = IF call.called THEN ffi_calls + 1 ELSE ffi_calls

SuffixC ==
    /\ ret_c = "none"
    /\ ret_suffix.tag = "none"
    /\ \E outcome \in FfiOutcomes : SuffixReturns(suffix(bufs.chars, outcome))
    /\ UNCHANGED <<rs_vars, bufs, node_num, ret_c, iter32>>

Iter32 ==
    /\ ret_suffix.tag = "Ok"
    /\ ~panicked
    /\ iter32' = [live |-> TRUE, i |-> iter(ret_suffix.val).i, out |-> <<>>]
    /\ UNCHANGED <<rs_vars, bufs, node_num, ret_c, ffi_calls, ret_suffix>>

Next32 ==
    /\ ret_suffix.tag = "Ok"
    /\ ~panicked
    /\ iter32.live
    /\ NoneCount(iter32.out) < MaxNone
    /\ LET call == next_i32(iter32, ret_suffix.val)
       IN /\ iter32' = [live |-> TRUE, i |-> call.i,
                        out |-> IF call.panic THEN iter32.out
                                ELSE Append(iter32.out, call.ret)]
          /\ panicked' = call.panic
    /\ UNCHANGED <<ret_rs, iters, bufs, node_num, ret_c, ffi_calls, ret_suffix>>

NextC ==
    \/ Esaxx
    \/ SuffixC
    \/ Iter32
    \/ Next32

SpecC == InitC /\ [][NextC]_vars

-----------------------------------------------------------------------------
(* Properties *)

Built == ret_rs.tag = "Ok"
Sfx == ret_rs.val
N == Len(Sfx.chars)
Nodes == 0..(Sfx.node_num - 1)
Left(i) == At(Sfx.left_array, i)
Right(i) == At(Sfx.right_array, i)
Depth(i) == At(Sfx.depth_array, i)

\* the suffix of T at offset a is lexicographically <= the suffix at offset b
RECURSIVE SuffixLeq(_, _, _)
SuffixLeq(T, a, b) ==
    IF a >= Len(T) THEN TRUE
    ELSE IF b >= Len(T) THEN FALSE
    ELSE IF At(T, a) # At(T, b) THEN At(T, a) < At(T, b)
    ELSE SuffixLeq(T, a + 1, b + 1)

\* the suffixes at suffix-array positions lo .. hi-1 all begin with the same len symbols
SharePrefix(lo, hi, len) ==
    \A p \in lo..(hi - 1) :
        /\ At(Sfx.suffix_array, p) + len <= N
        /\ \A k \in 0..(len - 1) :
               At(Sfx.chars, At(Sfx.suffix_array, p) + k)
                   = At(Sfx.chars, At(Sfx.suffix_array, lo) + k)

\* node i is well-formed: its interval and its substring lie inside the arrays
NodeInBounds(i) ==
    /\ InBounds(Sfx.left_array, i) /\ InBounds(Sfx.right_array, i)
    /\ InBounds(Sfx.depth_array, i)
    /\ 0 <= Left(i) /\ Left(i) < Right(i) /\ Right(i) <= N /\ Left(i) < N
    /\ InBounds(Sfx.suffix_array, Left(i))
    /\ Depth(i) >= 0
    /\ At(Sfx.suffix_array, Left(i)) + Depth(i) <= N

IsRoot(i) == Depth(i) = 0 /\ Left(i) = 0 /\ Right(i) = N

\* C1: when suffix_rs succeeds on a text of length n, suffix_array has length n, is a
\* permutation of 0..n-1, and consecutive entries name suffixes in non-decreasing
\* lexicographic order.
C1_SuffixArraySorted ==
    Built =>
        /\ Len(Sfx.suffix_array) = N
        /\ {At(Sfx.suffix_array, i) : i \in 0..(N - 1)} = 0..(N - 1)
        /\ \A i \in 0..(N - 2) :
               SuffixLeq(U32Chars(Sfx.chars), At(Sfx.suffix_array, i),
                         At(Sfx.suffix_array, i + 1))

\* the suffix array of the test for "abracadabra" has been built
C1_Witness ==
    /\ Built
    /\ Sfx.chars = Abracadabra
    /\ Sfx.suffix_array = <<10, 7, 0, 3, 5, 8, 1, 4, 6, 9, 2>>

Out(k) == iters[k].out

\* C3: a fresh iterator's next() returns Some exactly node_num times, for the node indices
\* 0, 1, .., node_num-1 in that order, and None on every call after that.
C3_YieldsEachNodeOnce ==
    \A k \in Iters :
        iters[k].live =>
            /\ iters[k].i = IF Len(Out(k)) < Sfx.node_num THEN Len(Out(k)) ELSE Sfx.node_num
            /\ \A c \in 1..Len(Out(k)) :
                   IF c <= Sfx.node_num
                   THEN Out(k)[c].some /\ Out(k)[c].index = c - 1
                   ELSE ~Out(k)[c].some

\* an iterator over at least two nodes was run to its end and asked again
C3_Witness ==
    \E k \in Iters :
        /\ iters[k].live
        /\ Sfx.node_num >= 2
        /\ Len(Out(k)) >= Sfx.node_num + 2

\* C4: the k-th item yielded is (chars[o .. o + depth_array[k]], right_array[k] -
\* left_array[k]) with o = suffix_array[left_array[k]].
C4_ItemIsSubstringAndWidth ==
    \A k \in Iters :
        iters[k].live =>
            \A c \in 1..Len(Out(k)) :
                Out(k)[c].some =>
                    /\ NodeInBounds(c - 1)
                    /\ Out(k)[c].slice
                         = SubSeq(Sfx.chars, At(Sfx.suffix_array, Left(c - 1)) + 1,
                                  At(Sfx.suffix_array, Left(c - 1)) + Depth(c - 1))
                    /\ Out(k)[c].freq = Right(c - 1) - Left(c - 1)

\* the five items of the test for "abracadabra" have been yielded
C4_Witness ==
    \E k \in Iters :
        /\ iters[k].live
        /\ Sfx.chars = Abracadabra
        /\ Len(Out(k)) >= 5
        /\ Out(k)[1].slice = <<"a", "b", "r", "a">> /\ Out(k)[1].freq = 2
        /\ Out(k)[2].slice = <<"a">> /\ Out(k)[2].freq = 5
        /\ Out(k)[3].slice = <<"b", "r", "a">> /\ Out(k)[3].freq = 2
        /\ Out(k)[4].slice = <<"r", "a">> /\ Out(k)[4].freq = 2
        /\ Out(k)[5].slice = <<>> /\ Out(k)[5].freq = 11

C7_NodesInBounds ==
    /\ Built => \A i \in Nodes : NodeInBounds(i)
    /\ ~panicked

\* "banana$band$$" has been built and iterated to the end without a panic
C7_Witness ==
    /\ Built
    /\ Sfx.chars = BananaBand
    /\ ~panicked
    /\ \E k \in Iters : iters[k].live /\ Len(Out(k)) > Sfx.node_num

LengthMismatch ==
    \/ Len(bufs.sa) # Len(bufs.chars) \/ Len(bufs.l) # Len(bufs.chars)
    \/ Len(bufs.r) # Len(bufs.chars) \/ Len(bufs.d) # Len(bufs.chars)

\* C8: when one of sa, l, r, d has a length other than n, esaxx returns InvalidLength
\* without entering the foreign function and leaves the buffers and node_num as they were.
C8_InvalidLengthBeforeForeignCall ==
    [][(ret_c = "none" /\ ret_c' # "none" /\ LengthMismatch) =>
           /\ ret_c' = "InvalidLength"
           /\ ffi_calls' = ffi_calls
           /\ bufs' = bufs
           /\ node_num' = node_num]_vars

\* esaxx has returned InvalidLength for buffers of which only d has the wrong length
C8_Witness ==
    /\ ret_c = "InvalidLength"
    /\ Len(bufs.chars) > 0
    /\ Len(bufs.sa) = Len(bufs.chars) /\ Len(bufs.l) = Len(bufs.chars)
    /\ Len(bufs.r) = Len(bufs.chars)
    /\ Len(bufs.d) # Len(bufs.chars)
    /\ bufs.d # Zeros(Len(bufs.d))

\* the items every iterator over the structure yields, while it yields
RECURSIVE Items(_, _)
Items(sfx, i) ==
    IF i >= sfx.node_num THEN <<>>
    ELSE <<Some(i,
                SubSeq(sfx.chars, At(sfx.suffix_array, At(sfx.left_array, i)) + 1,
                       At(sfx.suffix_array, At(sfx.left_array, i)) + At(sfx.depth_array, i)),
                At(sfx.right_array, i) - At(sfx.left_array, i))>> \o Items(sfx, i + 1)

IsPrefixOf(a, b) == Len(a) <= Len(b) /\ \A c \in 1..Len(a) : a[c] = b[c]
RECURSIVE Somes(_)
Somes(out) ==
    IF Len(out) = 0 THEN <<>>
    ELSE IF Head(out).some THEN <<Head(out)>> \o Somes(Tail(out))
    ELSE Somes(Tail(out))

\* C9: iter() and next() never change the structure; a step changes at most the one
\* iterator it acts on; iter() yields an iterator at node 0; and what an iterator has
\* yielded is a prefix of the one sequence the structure fixes, wherever the others are.
C9_IterationIsReadOnlyAndIndependent ==
    /\ [][Built => ret_rs' = ret_rs]_vars
    /\ [][\A k \in Iters : iters'[k] # iters[k] =>
              \A j \in Iters \ {k} : iters'[j] = iters[j]]_vars
    /\ [][\A k \in Iters : Iter(k) => (iters'[k].i = 0 /\ iters'[k].out = <<>>)]_vars
    /\ [](\A k \in Iters : iters[k].live => IsPrefixOf(Somes(Out(k)), Items(Sfx, 0)))

\* one iterator is exhausted while the other, obtained later, has yielded one item
C9_Witness ==
    /\ iters[1].live /\ iters[2].live
    /\ Sfx.node_num >= 3
    /\ Len(Out(1)) > Sfx.node_num
    /\ Len(Out(2)) = 1

ProperSubInterval(j, i) ==
    /\ Left(i) <= Left(j) /\ Right(j) <= Right(i)
    /\ (Left(i) # Left(j) \/ Right(i) # Right(j))

\* C10: no node is emitted before a node whose interval is nested in it: for i < j <
\* node_num the interval of j is not a proper sub-interval of the interval of i; the root
\* interval [0, n) at depth 0 is the last node.
C10_NestedIntervalsFirst ==
    Built =>
        /\ \A i \in Nodes : NodeInBounds(i)
        /\ \A i \in Nodes : \A j \in Nodes : i < j => ~ProperSubInterval(j, i)
        /\ \A i \in Nodes : IsRoot(i) => i = Sfx.node_num - 1

\* the nodes of "abracadabra": depth goes 4, 1, 3, 2, 0 and node 0 = [1, 3) lies in
\* node 1 = [0, 5)
C10_Witness ==
    /\ Built
    /\ Sfx.chars = Abracadabra
    /\ ProperSubInterval(0, 1)
    /\ Depth(0) > Depth(1) /\ Depth(1) < Depth(2)
    /\ IsRoot(Sfx.node_num - 1)

====
